---- MODULE Spec2Model ----
(***************************************************************************)
(* A model of dredd-rs: the context store (src/src/rule.rs), the default   *)
(* rule lifecycle (Rule::fire, BaseRule), the best-first and chain rule    *)
(* flavors (src/src/rule/*.rs) and their runners (src/src/runner/*.rs).    *)
(*                                                                         *)
(* Eight specifications share the variables:                                *)
(*   Spec      one traversal of a rule forest, hook by hook;               *)
(*   SpecDefault  the same over rules whose callbacks were never set;      *)
(*   SpecFail  the same with one callback that fails;                      *)
(*   SpecLive  Spec with the traversal's steps taken until none is left;   *)
(*   SpecBare  a best-first or chain rule fired with no context attached;  *)
(*   SpecAgain  Spec followed by a second run over the same roots;         *)
(*   SpecCtx   sequences of context-store operations;                      *)
(*   SpecBuild construction of a rule's child collection.                  *)
(***************************************************************************)
EXTENDS Integers, Sequences, FiniteSets, TLC

VARIABLES
    \* ---- the context store (RuleContext.context_map)
    context_map,
    \* ---- SpecCtx: the last context operation with its result, and the one before
    last,
    prev,
    \* ---- the rule forest and its callbacks
    flavor,
    children,
    eval_fn,
    fail_at,
    callbacks,
    rule_context,
    roots,
    \* ---- the traversal: call stack, last value returned by fire, history
    stack,
    ret,
    trace,
    fire_result,
    outcome,
    \* ---- the host's record of the forest as built and of the run before this one
    first_run,
    \* ---- SpecBuild: the rule under construction and the last construction call
    built,
    build_kind,
    build_last

vars == <<context_map, last, prev, flavor, children, eval_fn, fail_at, callbacks, rule_context, roots, stack, ret, trace, fire_result, outcome, first_run, built, build_kind, build_last>>

ctxVars == <<last, prev>>

forestVars == <<flavor, children, eval_fn, fail_at, callbacks, roots>>

runVars == <<rule_context, stack, ret, trace, fire_result, outcome>>

hostVars == <<first_run>>

buildVars == <<built, build_kind, build_last>>

----------------------------------------------------------------------------
(* Bounds *)

MaxNodes == 4

MaxChildren == 3

Nodes == 1..MaxNodes

----------------------------------------------------------------------------
(* RuleResult<T> and RuleError *)

Ok(v) == [ok |-> TRUE, val |-> v]

Err(e) == [ok |-> FALSE, err |-> e]

TypeMismatch(key, expected) == [kind |-> "TypeMismatch", key |-> key, expected |-> expected]

----------------------------------------------------------------------------
(* ContextValue: a tagged value, one constructor per variant *)

Variants == {"Bool", "Int", "Float", "String", "Bytes"}

BoolVals == {TRUE, FALSE}

IntVals == {-1, 7}

\* f64 values by their bit pattern; NaN is a value like any other to the store
FloatVals == {"1.5", "NaN"}

StringVals == {"", "a"}

BytesVals == {<<>>, <<0>>}

ValsOf(variant) ==
    CASE variant = "Bool" -> BoolVals
      [] variant = "Int" -> IntVals
      [] variant = "Float" -> FloatVals
      [] variant = "String" -> StringVals
      [] variant = "Bytes" -> BytesVals

ContextValue(variant, v) == [tag |-> variant, val |-> v]

\* the name each accessor puts in TypeMismatch.expected
ExpectedName(variant) ==
    CASE variant = "Bool" -> "bool"
      [] variant = "Int" -> "i64"
      [] variant = "Float" -> "f64"
      [] variant = "String" -> "String"
      [] variant = "Bytes" -> "Vec<u8>"

\* as_bool / as_int / as_float / as_string / as_bytes: one match arm for the
\* accessor's own variant, the wildcard arm for every other
as_variant_lenient(cv, variant) == Ok(cv.val)

as_variant(cv, variant) ==
    IF cv.tag = variant
      THEN Ok(cv.val)
      ELSE Err(TypeMismatch("unknown", ExpectedName(variant)))

----------------------------------------------------------------------------
(* RuleContext: HashMap<&'static str, ContextValue> as a function on the   *)
(* set of keys present                                                     *)

Keys == {"k1", "k2"}

HashMapInsert_keep_other_variant(m, key, value) ==
    IF key \in DOMAIN m /\ m[key].tag # value.tag THEN m ELSE [k \in (DOMAIN m) \cup {key} |-> IF k = key THEN value ELSE m[k]]

\* HashMap::insert: the key maps to the new value, whatever it mapped to
HashMapInsert(m, key, value) == [k \in (DOMAIN m) \cup {key} |-> IF k = key THEN value ELSE m[k]]

\* a removal that hands the value back but leaves the entry in the map
HashMapRemove_keeps_entry(m, key) == m

HashMapRemove(m, key) == [k \in (DOMAIN m) \ {key} |-> m[k]]

EmptyMap == [k \in {} |-> 0]

\* set_bool / set_int / set_float / set_string / set_bytes
set_variant_keep(m, key, variant, value) ==
    IF key \in DOMAIN m THEN m ELSE HashMapInsert(m, key, ContextValue(variant, value))

set_variant(m, key, variant, value) == HashMapInsert(m, key, ContextValue(variant, value))

get_variant_or_default(m, key, variant) ==
    IF key \notin DOMAIN m
      THEN Ok(CHOOSE v \in ValsOf(variant) : TRUE)
      ELSE as_variant(m[key], variant)

\* get_bool / get_int / get_float / get_string / get_bytes
get_variant(m, key, variant) ==
    IF key \notin DOMAIN m
      THEN Err(TypeMismatch(key, ExpectedName(variant)))
      ELSE as_variant(m[key], variant)

contains_key(m, key) == key \in DOMAIN m

set_int(m, key, value) == set_variant(m, key, "Int", value)

get_int(m, key) == get_variant(m, key, "Int")

----------------------------------------------------------------------------
(* SpecCtx: the host applies context operations one after the other *)

NoOp == [op |-> "none", key |-> "", variant |-> "", arg |-> 0, res |-> Ok(0)]

\* the operation before the last one is kept without its result
Forget(op) == [op EXCEPT !.res = Ok(0)]

OpRecord(op, key, variant, arg, res) == [op |-> op, key |-> key, variant |-> variant, arg |-> arg, res |-> res]

IdleRun ==
    /\ first_run = [done |-> FALSE, children |-> children, eval_fn |-> eval_fn, fail_at |-> fail_at, callbacks |-> callbacks, roots |-> roots, trace |-> <<>>, outcome |-> "idle"]
    /\ rule_context = [n \in Nodes |-> FALSE]
    /\ stack = <<>>
    /\ ret = "none"
    /\ trace = <<>>
    /\ fire_result = [n \in Nodes |-> "unfired"]
    /\ outcome = "idle"

IdleForest ==
    /\ flavor = "default"
    /\ children = [n \in Nodes |-> <<>>]
    /\ eval_fn = [n \in Nodes |-> TRUE]
    /\ fail_at = [rule |-> 0, ev |-> "none"]
    /\ callbacks = "set"
    /\ roots = <<>>

IdleBuild ==
    /\ built = <<>>
    /\ build_kind = "chain"
    /\ build_last = [op |-> "none", args |-> <<>>, res |-> [kind |-> "Ok"], before |-> <<>>]

IdleCtx ==
    /\ last = NoOp
    /\ prev = NoOp

InitCtx ==
    /\ context_map = EmptyMap
    /\ IdleCtx
    /\ IdleForest
    /\ IdleRun
    /\ IdleBuild

CtxSet ==
    \E key \in Keys, variant \in Variants :
      \E value \in ValsOf(variant) :
        /\ context_map' = set_variant(context_map, key, variant, value)
        /\ last' = OpRecord("set", key, variant, value, Ok(0))
        /\ prev' = Forget(last)
        /\ UNCHANGED <<forestVars, hostVars, runVars, buildVars>>

CtxGet ==
    \E key \in Keys, variant \in Variants :
      /\ last' = OpRecord("get", key, variant, 0, get_variant(context_map, key, variant))
      /\ prev' = Forget(last)
      /\ UNCHANGED <<context_map, forestVars, hostVars, runVars, buildVars>>

CtxContainsKey ==
    \E key \in Keys :
      /\ last' = OpRecord("contains_key", key, "", 0, Ok(contains_key(context_map, key)))
      /\ prev' = Forget(last)
      /\ UNCHANGED <<context_map, forestVars, hostVars, runVars, buildVars>>

CtxRemove ==
    \E key \in Keys :
      /\ context_map' = HashMapRemove(context_map, key)
      /\ last' = OpRecord("remove", key, "", 0, IF key \in DOMAIN context_map THEN Ok(<<context_map[key]>>) ELSE Ok(<<>>))
      /\ prev' = Forget(last)
      /\ UNCHANGED <<forestVars, hostVars, runVars, buildVars>>

CtxClear ==
    /\ context_map' = EmptyMap
    /\ last' = OpRecord("clear", "", "", 0, Ok(0))
    /\ prev' = Forget(last)
    /\ UNCHANGED <<forestVars, hostVars, runVars, buildVars>>

NextCtx ==
    \/ CtxSet
    \/ CtxGet
    \/ CtxContainsKey
    \/ CtxRemove
    \/ CtxClear

SpecCtx == InitCtx /\ [][NextCtx]_vars

----------------------------------------------------------------------------
(* The rule forest.  Rules are numbered; a rule's children are listed in   *)
(* insertion order.  Rule 0 is no rule.                                    *)

Flavors == {"default", "best_first", "chain"}

Hooks == {"pre", "exec", "post"}

NoFail == [rule |-> 0, ev |-> "none"]

\* the children lists of the forest in which rule n hangs under parent[n] (0: a root)
ChildrenOf(parent) == [n \in Nodes |-> SelectSeq([i \in 1..MaxNodes |-> i], LAMBDA c : parent[c] = n)]

RootsOf(parent) == SelectSeq([i \in 1..MaxNodes |-> i], LAMBDA c : parent[c] = 0)

Range(seq) == {seq[i] : i \in 1..Len(seq)}

RECURSIVE Descendants(_)
Descendants(n) == Range(children[n]) \cup UNION {Descendants(c) : c \in Range(children[n])}

\* the rules a run's context may reach: the roots and everything under them
InForest == Range(roots) \cup UNION {Descendants(r) : r \in Range(roots)}

----------------------------------------------------------------------------
(* The callbacks.  A predicate reads the counter the context holds under   *)
(* "n" and answers eval_fn[rule]; a hook reads the counter and stores it   *)
(* incremented.  Every invocation is appended to trace with what it read.  *)

Counter == "n"

Observed(m) == LET r == get_int(m, Counter) IN IF r.ok THEN r.val ELSE -1

HookEffect(m) == set_int(m, Counter, Observed(m) + 1)

BoolStr(b) == IF b THEN "true" ELSE "false"

Event(rule, ev, res) == [rule |-> rule, ev |-> ev, saw |-> Observed(context_map), res |-> res]

Fails_ignored(rule, ev) == FALSE

\* f(context)? on the callback of this rule that is set to fail
Fails(rule, ev) == fail_at = [rule |-> rule, ev |-> ev]

\* the trace after a callback was invoked: a callback the host set is recorded,
\* a callback left as constructed reads nothing and is not
Invoke(rule, ev, res) == IF callbacks = "set" THEN Append(trace, Event(rule, ev, res)) ELSE trace

\* RuleContextWrapper: every clone of the wrapper refers to the one map, so a
\* write made through the clone a rule holds is a write to the host's context
RuleContextWrapper_borrow_mut(shared, written) == written

----------------------------------------------------------------------------
(* The call stack: one frame per active run (a runner over a list of       *)
(* rules) or fire (one rule), the innermost last.                          *)

RunFrame(rules) == [kind |-> "run", rules |-> rules, i |-> 1, rule |-> 0, pc |-> "loop"]

FireFrame(rule) == [kind |-> "fire", rules |-> <<>>, i |-> 1, rule |-> rule, pc |-> "eval"]

Top == stack[Len(stack)]

Popped == SubSeq(stack, 1, Len(stack) - 1)

WithTop(frame) == [stack EXCEPT ![Len(stack)] = frame]

Running(kind, pc) ==
    /\ outcome = "running"
    /\ stack # <<>>
    /\ Top.kind = kind
    /\ Top.pc = pc

\* the call returns to its caller, or to the host when it was the outermost
ReturnTo(result) ==
    /\ stack' = Popped
    /\ outcome' = IF Len(stack) = 1 THEN result ELSE outcome

Panic ==
    /\ stack' = <<>>
    /\ outcome' = "panic"

InitRun ==
    /\ context_map = set_int(EmptyMap, Counter, 0)
    /\ IdleRun
    /\ IdleCtx
    /\ IdleBuild

\* The host has built a forest and hands the runner a list of its top-level
\* rules (the default lifecycle is started on one rule).  A chain-flavored rule
\* holds at most one child (ChainRule::add_child); a rule outside the run is as
\* constructed: no children, the always-true predicate.
InitForest ==
    /\ flavor \in Flavors
    /\ \E parent \in [Nodes -> 0..MaxNodes], k \in 0..MaxNodes :
         /\ \A n \in Nodes : parent[n] < n
         /\ k <= Len(RootsOf(parent))
         /\ children = ChildrenOf(parent)
         /\ roots = SubSeq(RootsOf(parent), 1, k)
    /\ flavor = "default" => Len(roots) = 1
    /\ flavor = "chain" => \A n \in Nodes : Len(children[n]) <= 1
    /\ eval_fn \in [Nodes -> BOOLEAN]
    /\ fail_at \in {NoFail} \cup [rule : Nodes, ev : {"eval"} \cup Hooks]
    /\ \A n \in Nodes \ InForest : children[n] = <<>> /\ eval_fn[n] /\ fail_at.rule # n

Init ==
    /\ InitForest
    /\ callbacks = "set"
    /\ flavor # "default" => fail_at = NoFail
    /\ InitRun

\* One callback of the forest fails when it is invoked: a predicate or hook of
\* the default lifecycle returns Err, a closure of a best-first or chain rule
\* (which has no error to return) panics.
InitFail ==
    /\ InitForest
    /\ callbacks = "set"
    /\ fail_at # NoFail
    /\ InitRun

\* Every rule of the forest is as its constructor left it: no predicate and no
\* hook was set (BaseRule::new: None; BestFirstRule::new / ChainRule::new: the
\* closures |_| true and |_| ()).
InitDefault ==
    /\ InitForest
    /\ callbacks = "default"
    /\ eval_fn = [n \in Nodes |-> TRUE]
    /\ fail_at = NoFail
    /\ InitRun

----------------------------------------------------------------------------
(* The host starts a traversal *)

\* Engine::execute_best_first: Self::best_first_runner().run(context, rules)
Engine_execute_best_first ==
    /\ outcome = "idle"
    /\ flavor = "best_first"
    /\ stack' = <<RunFrame(roots)>>
    /\ outcome' = "running"
    /\ UNCHANGED <<context_map, ctxVars, forestVars, hostVars, rule_context, ret, trace, fire_result, buildVars>>

\* Engine::execute_chain: Self::chain_runner().run(context, rules)
Engine_execute_chain ==
    /\ outcome = "idle"
    /\ flavor = "chain"
    /\ stack' = <<RunFrame(roots)>>
    /\ outcome' = "running"
    /\ UNCHANGED <<context_map, ctxVars, forestVars, hostVars, rule_context, ret, trace, fire_result, buildVars>>

\* the host calls rule.fire(&mut context) on a rule with the default lifecycle
Host_fire ==
    /\ outcome = "idle"
    /\ flavor = "default"
    /\ stack' = <<FireFrame(roots[1])>>
    /\ outcome' = "running"
    /\ UNCHANGED <<context_map, ctxVars, forestVars, hostVars, rule_context, ret, trace, fire_result, buildVars>>

\* the host calls rule.fire() on a best-first or chain rule itself, without a
\* runner: nothing has called set_rule_context on the rule
Host_fire_without_context ==
    /\ outcome = "idle"
    /\ flavor \in {"best_first", "chain"}
    /\ roots # <<>>
    /\ stack' = <<FireFrame(roots[1])>>
    /\ outcome' = "running"
    /\ UNCHANGED <<context_map, ctxVars, forestVars, hostVars, rule_context, ret, trace, fire_result, buildVars>>

----------------------------------------------------------------------------
(* Rule::fire, the default lifecycle, over BaseRule::evaluate / execute *)

BaseRule_execute_next_swapped(hook) ==
    CASE hook = "pre" -> "post"
      [] hook = "post" -> "exec"
      [] hook = "exec" -> "children"

\* BaseRule::execute: pre, then main, then post
BaseRule_execute_next(hook) ==
    CASE hook = "pre" -> "exec"
      [] hook = "exec" -> "post"
      [] hook = "post" -> "children"

Rule_fire_branch_always(evaluated) == "pre"

BaseRule_evaluate_none_is_false(r) == IF callbacks = "set" THEN eval_fn[r] ELSE FALSE

\* BaseRule::evaluate: match &self.eval_fn { Some(f) => f(context), None => Ok(true) }
BaseRule_evaluate(r) == IF callbacks = "set" THEN eval_fn[r] ELSE TRUE

BaseRule_hook_on_copy(ctx) == ctx

\* if let Some(f) = &self.pre_execute_fn { f(context)?; }: the hook works on
\* the caller's context; without a hook nothing happens
BaseRule_hook(ctx) == IF callbacks = "set" THEN HookEffect(ctx) ELSE ctx

\* if self.evaluate(context)? { execute, children } else { Ok(false) }
Rule_fire_branch(evaluated) == IF evaluated THEN "pre" ELSE "return"

\* self.evaluate(context)? and the branch on its value
Rule_fire_evaluate ==
    /\ Running("fire", "eval")
    /\ flavor = "default"
    /\ LET r == Top.rule IN
         IF Fails(r, "eval")
           THEN /\ trace' = Invoke(r, "eval", "err")
                /\ ret' = "err"
                /\ fire_result' = [fire_result EXCEPT ![r] = "err"]
                /\ ReturnTo("err")
           ELSE /\ trace' = Invoke(r, "eval", BoolStr(BaseRule_evaluate(r)))
                /\ IF Rule_fire_branch(BaseRule_evaluate(r)) = "pre"
                     THEN /\ stack' = WithTop([Top EXCEPT !.pc = "pre"])
                          /\ UNCHANGED <<ret, fire_result, outcome>>
                     ELSE /\ ret' = "false"
                          /\ fire_result' = [fire_result EXCEPT ![r] = "false"]
                          /\ ReturnTo("ok")
    /\ UNCHANGED <<context_map, ctxVars, forestVars, hostVars, rule_context, buildVars>>

\* self.execute(context)?: one hook of BaseRule::execute, f(context)?
BaseRule_execute ==
    /\ outcome = "running"
    /\ stack # <<>>
    /\ Top.kind = "fire"
    /\ Top.pc \in Hooks
    /\ flavor = "default"
    /\ LET r == Top.rule
           hook == Top.pc
       IN
         IF Fails(r, hook)
           THEN /\ trace' = Invoke(r, hook, "err")
                /\ ret' = "err"
                /\ fire_result' = [fire_result EXCEPT ![r] = "err"]
                /\ ReturnTo("err")
                /\ UNCHANGED context_map
           ELSE /\ trace' = Invoke(r, hook, "ok")
                /\ context_map' = BaseRule_hook(context_map)
                /\ stack' = WithTop([Top EXCEPT !.pc = BaseRule_execute_next(hook)])
                /\ UNCHANGED <<ret, fire_result, outcome>>
    /\ UNCHANGED <<ctxVars, forestVars, hostVars, rule_context, buildVars>>

\* for child in self.children_mut() { child.fire(context)?; }  Ok(true)
Rule_fire_children ==
    /\ Running("fire", "children")
    /\ flavor = "default"
    /\ LET r == Top.rule IN
         IF Top.i <= Len(children[r])
           THEN /\ stack' = Append(WithTop([Top EXCEPT !.pc = "child"]), FireFrame(children[r][Top.i]))
                /\ UNCHANGED <<ret, fire_result, outcome>>
           ELSE /\ ret' = "true"
                /\ fire_result' = [fire_result EXCEPT ![r] = "true"]
                /\ ReturnTo("ok")
    /\ UNCHANGED <<context_map, ctxVars, forestVars, hostVars, rule_context, trace, buildVars>>

Rule_fire_child_failed_never(returned) == FALSE

Rule_fire_child_failed_or_false(returned) == returned \in {"err", "false"}

\* child.fire(context)?: only Err leaves the loop, Ok(true) and Ok(false) go on
Rule_fire_child_failed(returned) == returned = "err"

\* the ? after child.fire(context): an error leaves the loop and the function
Rule_fire_after_child ==
    /\ Running("fire", "child")
    /\ flavor = "default"
    /\ LET r == Top.rule IN
         IF Rule_fire_child_failed(ret)
           THEN /\ fire_result' = [fire_result EXCEPT ![r] = "err"]
                /\ ReturnTo("err")
                /\ UNCHANGED ret
           ELSE /\ stack' = WithTop([Top EXCEPT !.pc = "children", !.i = @ + 1])
                /\ UNCHANGED <<ret, fire_result, outcome>>
    /\ UNCHANGED <<context_map, ctxVars, forestVars, hostVars, rule_context, trace, buildVars>>

----------------------------------------------------------------------------
(* BestFirstRule and BestFirstRuleRunner *)

BestFirstRule_fire_next_children_first(hook) ==
    CASE hook = "pre" -> "exec"
      [] hook = "exec" -> "children"
      [] hook = "post" -> "children"

\* BestFirstRule::fire: pre, main, post, then the children
BestFirstRule_fire_next(hook) ==
    CASE hook = "pre" -> "exec"
      [] hook = "exec" -> "post"
      [] hook = "post" -> "children"

BestFirstRule_fire_branch_always(evaluated) == "pre"

\* if self.run_eval() { hooks, children }
BestFirstRule_fire_branch(evaluated) == IF evaluated THEN "pre" ELSE "return"

\* run_eval: the closure the rule holds, |_| true unless on_eval replaced it
BestFirstRule_run_eval(r) == IF callbacks = "set" THEN eval_fn[r] ELSE TRUE

\* run_pre_execute / run_execute / run_post_execute: the closure the rule
\* holds, |_| () unless replaced, called on a clone of the rule
BestFirstRule_run_callback(ctx) ==
    IF callbacks = "set" THEN RuleContextWrapper_borrow_mut(ctx, HookEffect(ctx)) ELSE ctx

BestFirstRule_fire_result_plain(evaluated) == IF evaluated THEN "true" ELSE "false"

\* what BestFirstRule::fire returns: false after the rule ran, true otherwise
BestFirstRule_fire_result(evaluated) == IF evaluated THEN "false" ELSE "true"

BestFirstRuleRunner_breaks_never(fired) == FALSE

\* a loop that stops on the first rule whose fire returned true
BestFirstRuleRunner_breaks_on_true(fired) == fired = "true"

\* if !rule_borrow.fire() { break; }
BestFirstRuleRunner_breaks(fired) == fired = "false"

\* set_rule_context: self.rule_context = Some(rule_context)
BestFirstRule_set_rule_context(rule) == [rule_context EXCEPT ![rule] = TRUE]

BestFirstRuleRunner_scan_evaluating(rule) == Invoke(rule, "eval", BoolStr(eval_fn[rule]))

\* the history after the runner's own part of one loop turn: the runner calls
\* no predicate itself, it leaves that to fire
BestFirstRuleRunner_scan(rule) == trace

\* for rule in rules { set_rule_context; ... rule_borrow.fire() ... }
BestFirstRuleRunner_run ==
    /\ Running("run", "loop")
    /\ flavor = "best_first"
    /\ IF Top.i <= Len(Top.rules)
         THEN LET rule == Top.rules[Top.i] IN
                /\ rule_context' = BestFirstRule_set_rule_context(rule)
                /\ trace' = BestFirstRuleRunner_scan(rule)
                /\ stack' = Append(WithTop([Top EXCEPT !.pc = "fired"]), FireFrame(rule))
                /\ UNCHANGED outcome
         ELSE /\ ReturnTo("ok")
              /\ UNCHANGED <<rule_context, trace>>
    /\ UNCHANGED <<context_map, ctxVars, forestVars, hostVars, ret, fire_result, buildVars>>

\* the runner's loop once fire has returned: break, or the next sibling
BestFirstRuleRunner_after_fire ==
    /\ Running("run", "fired")
    /\ flavor = "best_first"
    /\ IF BestFirstRuleRunner_breaks(ret)
         THEN ReturnTo("ok")
         ELSE /\ stack' = WithTop([Top EXCEPT !.pc = "loop", !.i = @ + 1])
              /\ UNCHANGED outcome
    /\ UNCHANGED <<context_map, ctxVars, forestVars, hostVars, rule_context, ret, trace, fire_result, buildVars>>

\* if self.run_eval() { ... } true; the callback reaches the context through
\* get_rule_context, which unwraps the rule's Option
BestFirstRule_fire_eval ==
    /\ Running("fire", "eval")
    /\ flavor = "best_first"
    /\ LET r == Top.rule IN
         IF callbacks = "set" /\ ~rule_context[r]
           THEN /\ Panic
                /\ UNCHANGED <<trace, ret, fire_result>>
           ELSE IF Fails(r, "eval")
           THEN /\ trace' = Invoke(r, "eval", "err")
                /\ Panic
                /\ UNCHANGED <<ret, fire_result>>
           ELSE /\ trace' = Invoke(r, "eval", BoolStr(BestFirstRule_run_eval(r)))
                /\ IF BestFirstRule_fire_branch(BestFirstRule_run_eval(r)) = "pre"
                     THEN /\ stack' = WithTop([Top EXCEPT !.pc = "pre"])
                          /\ UNCHANGED <<ret, fire_result, outcome>>
                     ELSE /\ ret' = BestFirstRule_fire_result(FALSE)
                          /\ fire_result' = [fire_result EXCEPT ![r] = BestFirstRule_fire_result(FALSE)]
                          /\ ReturnTo("ok")
    /\ UNCHANGED <<context_map, ctxVars, forestVars, hostVars, rule_context, buildVars>>

\* run_pre_execute / run_execute / run_post_execute
BestFirstRule_run_hook ==
    /\ outcome = "running"
    /\ stack # <<>>
    /\ Top.kind = "fire"
    /\ Top.pc \in Hooks
    /\ flavor = "best_first"
    /\ LET r == Top.rule
           hook == Top.pc
       IN
         IF callbacks = "set" /\ ~rule_context[r]
           THEN /\ Panic
                /\ UNCHANGED <<trace, context_map>>
           ELSE IF Fails(r, hook)
           THEN /\ trace' = Invoke(r, hook, "err")
                /\ Panic
                /\ UNCHANGED context_map
           ELSE /\ trace' = Invoke(r, hook, "ok")
                /\ context_map' = BestFirstRule_run_callback(context_map)
                /\ stack' = WithTop([Top EXCEPT !.pc = BestFirstRule_fire_next(hook)])
                /\ UNCHANGED outcome
    /\ UNCHANGED <<ctxVars, forestVars, hostVars, rule_context, ret, fire_result, buildVars>>

BestFirstRule_children_after_get_taken(r) == [children EXCEPT ![r] = <<>>]

\* get_children: self.children.clone(); the rule keeps its own Vec
BestFirstRule_children_after_get(r) == children

\* run_children: Engine::best_first_runner().run(self.get_rule_context(), self.get_children())
BestFirstRule_run_children ==
    /\ Running("fire", "children")
    /\ flavor = "best_first"
    /\ LET r == Top.rule IN
         IF ~rule_context[r]
           THEN /\ Panic
                /\ UNCHANGED children
           ELSE /\ stack' = Append(WithTop([Top EXCEPT !.pc = "ret"]), RunFrame(children[r]))
                /\ children' = BestFirstRule_children_after_get(r)
                /\ UNCHANGED outcome
    /\ UNCHANGED <<context_map, ctxVars, flavor, eval_fn, fail_at, callbacks, roots, hostVars, rule_context, ret, trace, fire_result, buildVars>>

\* return false, after run_children
BestFirstRule_fire_return ==
    /\ Running("fire", "ret")
    /\ flavor = "best_first"
    /\ ret' = BestFirstRule_fire_result(TRUE)
    /\ fire_result' = [fire_result EXCEPT ![Top.rule] = BestFirstRule_fire_result(TRUE)]
    /\ ReturnTo("ok")
    /\ UNCHANGED <<context_map, ctxVars, forestVars, hostVars, rule_context, trace, buildVars>>

----------------------------------------------------------------------------
(* ChainRule and ChainRuleRunner *)

ChainRule_fire_next_childless(hook) ==
    CASE hook = "pre" -> "exec"
      [] hook = "exec" -> "post"
      [] hook = "post" -> "ret"

ChainRule_fire_next_repeating(hook) ==
    CASE hook = "pre" -> "exec"
      [] hook = "exec" -> "post"
      [] hook = "post" -> "pre"

\* ChainRule::fire: pre, main, post, then the child
ChainRule_fire_next(hook) ==
    CASE hook = "pre" -> "exec"
      [] hook = "exec" -> "post"
      [] hook = "post" -> "children"

\* if self.run_eval() { hooks, children }
ChainRule_fire_branch(evaluated) == IF evaluated THEN "pre" ELSE "return"

\* run_eval: the closure the rule holds, |_| true unless on_eval replaced it
ChainRule_run_eval(r) == IF callbacks = "set" THEN eval_fn[r] ELSE TRUE

\* run_pre_execute / run_execute / run_post_execute: the closure the rule
\* holds, |_| () unless replaced, called on a clone of the rule
ChainRule_run_callback(ctx) ==
    IF callbacks = "set" THEN RuleContextWrapper_borrow_mut(ctx, HookEffect(ctx)) ELSE ctx

\* what ChainRule::fire returns: true on both paths
ChainRule_fire_result(evaluated) == "true"

ChainRuleRunner_accepts_any(rules) == TRUE

ChainRuleRunner_accepts_exactly_one(rules) == Len(rules) = 1

\* if rules.len() <= 1 { ... } else { panic!(...) }
ChainRuleRunner_accepts(rules) == Len(rules) <= 1

ChainRule_set_rule_context_dropped(rule) == rule_context

\* set_rule_context: self.rule_context = Some(rule_context)
ChainRule_set_rule_context(rule) == [rule_context EXCEPT ![rule] = TRUE]

\* ChainRuleRunner::run up to the call of fire
ChainRuleRunner_run ==
    /\ Running("run", "loop")
    /\ flavor = "chain"
    /\ IF ChainRuleRunner_accepts(Top.rules)
         THEN IF Top.rules # <<>>
                THEN LET rule == Top.rules[1] IN
                       /\ rule_context' = ChainRule_set_rule_context(rule)
                       /\ stack' = Append(WithTop([Top EXCEPT !.pc = "fired"]), FireFrame(rule))
                       /\ UNCHANGED outcome
                ELSE /\ ReturnTo("ok")
                     /\ UNCHANGED rule_context
         ELSE /\ Panic
              /\ UNCHANGED rule_context
    /\ UNCHANGED <<context_map, ctxVars, forestVars, hostVars, ret, trace, fire_result, buildVars>>

\* rule.fire(); its value is dropped and run returns
ChainRuleRunner_after_fire ==
    /\ Running("run", "fired")
    /\ flavor = "chain"
    /\ ReturnTo("ok")
    /\ UNCHANGED <<context_map, ctxVars, forestVars, hostVars, rule_context, ret, trace, fire_result, buildVars>>

\* if self.run_eval() { ... } true
ChainRule_fire_eval ==
    /\ Running("fire", "eval")
    /\ flavor = "chain"
    /\ LET r == Top.rule IN
         IF callbacks = "set" /\ ~rule_context[r]
           THEN /\ Panic
                /\ UNCHANGED <<trace, ret, fire_result>>
           ELSE IF Fails(r, "eval")
           THEN /\ trace' = Invoke(r, "eval", "err")
                /\ Panic
                /\ UNCHANGED <<ret, fire_result>>
           ELSE /\ trace' = Invoke(r, "eval", BoolStr(ChainRule_run_eval(r)))
                /\ IF ChainRule_fire_branch(ChainRule_run_eval(r)) = "pre"
                     THEN /\ stack' = WithTop([Top EXCEPT !.pc = "pre"])
                          /\ UNCHANGED <<ret, fire_result, outcome>>
                     ELSE /\ ret' = ChainRule_fire_result(FALSE)
                          /\ fire_result' = [fire_result EXCEPT ![r] = ChainRule_fire_result(FALSE)]
                          /\ ReturnTo("ok")
    /\ UNCHANGED <<context_map, ctxVars, forestVars, hostVars, rule_context, buildVars>>

\* run_pre_execute / run_execute / run_post_execute
ChainRule_run_hook ==
    /\ outcome = "running"
    /\ stack # <<>>
    /\ Top.kind = "fire"
    /\ Top.pc \in Hooks
    /\ flavor = "chain"
    /\ LET r == Top.rule
           hook == Top.pc
       IN
         IF callbacks = "set" /\ ~rule_context[r]
           THEN /\ Panic
                /\ UNCHANGED <<trace, context_map>>
           ELSE IF Fails(r, hook)
           THEN /\ trace' = Invoke(r, hook, "err")
                /\ Panic
                /\ UNCHANGED context_map
           ELSE /\ trace' = Invoke(r, hook, "ok")
                /\ context_map' = ChainRule_run_callback(context_map)
                /\ stack' = WithTop([Top EXCEPT !.pc = ChainRule_fire_next(hook)])
                /\ UNCHANGED outcome
    /\ UNCHANGED <<ctxVars, forestVars, hostVars, rule_context, ret, fire_result, buildVars>>

ChainRule_children_after_get_taken(r) == [children EXCEPT ![r] = <<>>]

\* get_children: self.children.clone(); the rule keeps its own Vec
ChainRule_children_after_get(r) == children

\* run_children: Engine::chain_runner().run(self.get_rule_context(), self.get_children())
ChainRule_run_children ==
    /\ Running("fire", "children")
    /\ flavor = "chain"
    /\ LET r == Top.rule IN
         IF ~rule_context[r]
           THEN /\ Panic
                /\ UNCHANGED children
           ELSE /\ stack' = Append(WithTop([Top EXCEPT !.pc = "ret"]), RunFrame(children[r]))
                /\ children' = ChainRule_children_after_get(r)
                /\ UNCHANGED outcome
    /\ UNCHANGED <<context_map, ctxVars, flavor, eval_fn, fail_at, callbacks, roots, hostVars, rule_context, ret, trace, fire_result, buildVars>>

\* true, after run_children
ChainRule_fire_return ==
    /\ Running("fire", "ret")
    /\ flavor = "chain"
    /\ ret' = ChainRule_fire_result(TRUE)
    /\ fire_result' = [fire_result EXCEPT ![Top.rule] = ChainRule_fire_result(TRUE)]
    /\ ReturnTo("ok")
    /\ UNCHANGED <<context_map, ctxVars, forestVars, hostVars, rule_context, trace, buildVars>>

----------------------------------------------------------------------------

Next ==
    \/ Engine_execute_best_first
    \/ Engine_execute_chain
    \/ Host_fire
    \/ Rule_fire_evaluate
    \/ BaseRule_execute
    \/ Rule_fire_children
    \/ Rule_fire_after_child
    \/ BestFirstRuleRunner_run
    \/ BestFirstRuleRunner_after_fire
    \/ BestFirstRule_fire_eval
    \/ BestFirstRule_run_hook
    \/ BestFirstRule_run_children
    \/ BestFirstRule_fire_return
    \/ ChainRuleRunner_run
    \/ ChainRuleRunner_after_fire
    \/ ChainRule_fire_eval
    \/ ChainRule_run_hook
    \/ ChainRule_run_children
    \/ ChainRule_fire_return

Spec == Init /\ [][Next]_vars

SpecDefault == InitDefault /\ [][Next]_vars

SpecFail == InitFail /\ [][Next]_vars

\* A best-first or chain rule, with callbacks set or as constructed, that the
\* host fires itself.
InitBare ==
    /\ InitForest
    /\ flavor \in {"best_first", "chain"}
    /\ roots # <<>>
    /\ fail_at = NoFail
    /\ callbacks \in {"set", "default"}
    /\ callbacks = "default" => eval_fn = [n \in Nodes |-> TRUE]
    /\ InitRun

NextBare ==
    \/ Host_fire_without_context
    \/ BestFirstRule_fire_eval
    \/ BestFirstRule_run_hook
    \/ BestFirstRule_run_children
    \/ ChainRule_fire_eval
    \/ ChainRule_run_hook
    \/ ChainRule_run_children

SpecBare == InitBare /\ [][NextBare]_vars

\* The run has returned (normally or with an error) and the host runs the same
\* roots again on a context equal to the one it gave the first time; what the
\* first run attached to the rules is still attached.
Host_run_again ==
    /\ outcome \in {"ok", "err"}
    /\ ~first_run.done
    /\ first_run' = [first_run EXCEPT !.done = TRUE, !.trace = trace, !.outcome = outcome]
    /\ context_map' = set_int(EmptyMap, Counter, 0)
    /\ stack' = <<>>
    /\ ret' = "none"
    /\ trace' = <<>>
    /\ fire_result' = [n \in Nodes |-> "unfired"]
    /\ outcome' = "idle"
    /\ UNCHANGED <<ctxVars, forestVars, rule_context, buildVars>>

NextAgain ==
    \/ Next
    \/ Host_run_again

SpecAgain == Init /\ [][NextAgain]_vars

\* A traversal is one synchronous call: every step that can be taken is taken.
SpecLive == Init /\ [][Next]_vars /\ WF_vars(Next)

----------------------------------------------------------------------------
(* SpecBuild: the host attaches children to one rule.  built is the rule's *)
(* children vector; build_last is the last call, its arguments, what it    *)
(* returned and the vector before it.  A panic ends the construction.      *)

BuildKinds == {"base", "best_first", "chain"}

BuildOk == [kind |-> "Ok"]

BuildPanic(msg) == [kind |-> "Panic", msg |-> msg]

TooManyChildren(max, attempted) == [kind |-> "TooManyChildren", max |-> max, attempted |-> attempted]

\* lists of distinct rules not yet attached, at most n of them
FreshLists(n) == {l \in UNION {[1..m -> Nodes \ Range(built)] : m \in 0..n} : \A i, j \in 1..Len(l) : i # j => l[i] # l[j]}

BuildCall(op, args, res) == [op |-> op, args |-> args, res |-> res, before |-> built]

Building(kind) ==
    /\ build_kind = kind
    /\ build_last.res.kind # "Panic"

InitBuild ==
    /\ build_kind \in BuildKinds
    /\ built = <<>>
    /\ build_last = [op |-> "none", args |-> <<>>, res |-> BuildOk, before |-> <<>>]
    /\ context_map = EmptyMap
    /\ IdleCtx
    /\ IdleForest
    /\ IdleRun

\* ChainRule::add_child: panics when the rule has a child already, else pushes
ChainRule_add_child(rule) ==
    IF Len(built) > 0
      THEN /\ build_last' = BuildCall("add_child", <<rule>>, BuildPanic("Chain rule can only have one child"))
           /\ UNCHANGED built
      ELSE /\ built' = Append(built, rule)
           /\ build_last' = BuildCall("add_child", <<rule>>, BuildOk)

ChainRule_add_children_one_by_one(rules) ==
    IF Len(built) + Len(rules) > 1
      THEN /\ build_last' = BuildCall("add_children", rules, BuildPanic("Chain rule can only have one child."))
           /\ built' = IF built = <<>> THEN <<rules[1]>> ELSE built
      ELSE /\ built' = built \o rules
           /\ build_last' = BuildCall("add_children", rules, BuildOk)

\* ChainRule::add_children: panics when the total would exceed one, else extends
ChainRule_add_children(rules) ==
    IF Len(built) + Len(rules) > 1
      THEN /\ build_last' = BuildCall("add_children", rules, BuildPanic("Chain rule can only have one child."))
           /\ UNCHANGED built
      ELSE /\ built' = built \o rules
           /\ build_last' = BuildCall("add_children", rules, BuildOk)

ChainRule_get_children_by_reference(pushed) ==
    /\ built' = Append(built, pushed)
    /\ build_last' = BuildCall("get_children", <<pushed>>, BuildOk)

\* ChainRule::get_children: self.children.clone(); a rule the caller pushes
\* onto the returned Vec is in the copy, not in the rule
ChainRule_get_children(pushed) ==
    /\ built' = built
    /\ build_last' = BuildCall("get_children", <<pushed>>, BuildOk)

\* BaseRule::children_mut: &mut self.children; the caller pushes onto the
\* rule's own Vec
BaseRule_children_mut(pushed) ==
    /\ built' = Append(built, pushed)
    /\ build_last' = BuildCall("children_mut", <<pushed>>, BuildOk)

\* BestFirstRule::add_child: self.children.push(rule)
BestFirstRule_add_child(rule) ==
    /\ built' = Append(built, rule)
    /\ build_last' = BuildCall("add_child", <<rule>>, BuildOk)

\* BestFirstRule::add_children: self.children.extend(rules)
BestFirstRule_add_children(rules) ==
    /\ built' = built \o rules
    /\ build_last' = BuildCall("add_children", rules, BuildOk)

\* BaseRule::add_child: self.children.push(child); Ok(())
BaseRule_add_child(rule) ==
    /\ built' = Append(built, rule)
    /\ build_last' = BuildCall("add_child", <<rule>>, BuildOk)

\* Rule::add_children: for child in children { self.add_child(child)?; } Ok(())
\* (BaseRule::add_child never fails, so every child is pushed)
Rule_add_children(rules) ==
    /\ built' = built \o rules
    /\ build_last' = BuildCall("add_children", rules, BuildOk)

BuildChainAddChild ==
    /\ Building("chain")
    /\ \E rule \in Nodes \ Range(built) : ChainRule_add_child(rule)
    /\ UNCHANGED <<context_map, ctxVars, forestVars, hostVars, runVars, build_kind>>

BuildChainAddChildren ==
    /\ Building("chain")
    /\ \E rules \in FreshLists(MaxChildren) : ChainRule_add_children(rules)
    /\ UNCHANGED <<context_map, ctxVars, forestVars, hostVars, runVars, build_kind>>

BuildChainGetChildren ==
    /\ Building("chain")
    /\ \E rule \in Nodes \ Range(built) : ChainRule_get_children(rule)
    /\ UNCHANGED <<context_map, ctxVars, forestVars, hostVars, runVars, build_kind>>

BuildBestFirstAddChild ==
    /\ Building("best_first")
    /\ Len(built) < MaxChildren
    /\ \E rule \in Nodes \ Range(built) : BestFirstRule_add_child(rule)
    /\ UNCHANGED <<context_map, ctxVars, forestVars, hostVars, runVars, build_kind>>

BuildBestFirstAddChildren ==
    /\ Building("best_first")
    /\ \E rules \in FreshLists(MaxChildren - Len(built)) : BestFirstRule_add_children(rules)
    /\ UNCHANGED <<context_map, ctxVars, forestVars, hostVars, runVars, build_kind>>

BuildBaseAddChild ==
    /\ Building("base")
    /\ Len(built) < MaxChildren
    /\ \E rule \in Nodes \ Range(built) : BaseRule_add_child(rule)
    /\ UNCHANGED <<context_map, ctxVars, forestVars, hostVars, runVars, build_kind>>

BuildBaseAddChildren ==
    /\ Building("base")
    /\ \E rules \in FreshLists(MaxChildren - Len(built)) : Rule_add_children(rules)
    /\ UNCHANGED <<context_map, ctxVars, forestVars, hostVars, runVars, build_kind>>

BuildBaseChildrenMut ==
    /\ Building("base")
    /\ Len(built) < MaxChildren
    /\ \E rule \in Nodes \ Range(built) : BaseRule_children_mut(rule)
    /\ UNCHANGED <<context_map, ctxVars, forestVars, hostVars, runVars, build_kind>>

NextBuild ==
    \/ BuildChainAddChild
    \/ BuildChainAddChildren
    \/ BuildChainGetChildren
    \/ BuildBaseChildrenMut
    \/ BuildBestFirstAddChild
    \/ BuildBestFirstAddChildren
    \/ BuildBaseAddChild
    \/ BuildBaseAddChildren

SpecBuild == InitBuild /\ [][NextBuild]_vars

----------------------------------------------------------------------------
(* Reading the history of a traversal *)

Evaluated(r) == \E i \in DOMAIN trace : trace[i].rule = r /\ trace[i].ev = "eval"

HookRan(r, hook) == \E i \in DOMAIN trace : trace[i].rule = r /\ trace[i].ev = hook

AnyHookRan(r) == \E i \in DOMAIN trace : trace[i].rule = r /\ trace[i].ev \in Hooks

Touched(r) == \E i \in DOMAIN trace : trace[i].rule = r

TimesRan(r, ev) == Cardinality({i \in DOMAIN trace : trace[i].rule = r /\ trace[i].ev = ev})

\* index of the first rule of the list whose predicate is true, 0 when none is
FirstTrue(rules) ==
    IF \E i \in 1..Len(rules) : eval_fn[rules[i]]
      THEN CHOOSE i \in 1..Len(rules) : eval_fn[rules[i]] /\ \A j \in 1..(i - 1) : ~eval_fn[rules[j]]
      ELSE 0

\* the rules a best-first traversal entering at r commits to
RECURSIVE CommittedPath(_)
CommittedPath(r) ==
    LET k == FirstTrue(children[r]) IN
      IF k = 0 THEN {r} ELSE {r} \cup CommittedPath(children[r][k])

\* a chain from its top rule down, parent before child
RECURSIVE ChainFrom(_)
ChainFrom(r) == IF children[r] = <<>> THEN <<r>> ELSE <<r>> \o ChainFrom(children[r][1])

\* the rules whose main hook ran, in the order it ran
Executed == LET ran == SelectSeq(trace, LAMBDA e : e.ev = "exec") IN [i \in 1..Len(ran) |-> ran[i].rule]

Finished == outcome \in {"ok", "err", "panic"}

----------------------------------------------------------------------------
(* Claims *)

\* C1 (best-first commit): once a best-first rule with a true predicate has
\* been fired and Ck is the first of its children whose predicate is true, no
\* child other than Ck runs a hook, no child after Ck is evaluated or run, no
\* descendant of a child before Ck is evaluated or run; and when the rule's
\* fire has returned, Ck has run each of its three hooks exactly once.
C1_BestFirstCommit ==
    flavor = "best_first" =>
      \A p \in Nodes :
        LET cs == children[p]
            k == FirstTrue(cs)
        IN (Evaluated(p) /\ eval_fn[p] /\ k > 0) =>
             /\ \A j \in 1..Len(cs) : j # k => ~AnyHookRan(cs[j])
             /\ \A j \in 1..Len(cs) : j > k => ~Touched(cs[j])
             /\ \A j \in 1..Len(cs) : j < k => \A d \in Descendants(cs[j]) : ~Touched(d)
             /\ fire_result[p] # "unfired" => \A h \in Hooks : TimesRan(cs[k], h) = 1

\* C1 witness: a finished best-first run in which a fired rule has a false
\* child before the committed one and a further child after it
C1_Witness ==
    /\ flavor = "best_first"
    /\ outcome = "ok"
    /\ \E p \in Nodes :
         /\ fire_result[p] # "unfired"
         /\ eval_fn[p]
         /\ FirstTrue(children[p]) >= 2
         /\ FirstTrue(children[p]) < Len(children[p])
         /\ HookRan(children[p][FirstTrue(children[p])], "exec")

\* C2 (best-first sibling scan): in a best-first run over roots R1..Rn with Rm
\* the first whose predicate is true, the rules that run a hook all lie on the
\* committed path of Rm (and are exactly that path once the run has returned);
\* no Rj before Rm runs a hook, none of its descendants is visited, and no Rj
\* after Rm is evaluated or run.
C2_BestFirstSiblingScan ==
    (flavor = "best_first" /\ FirstTrue(roots) > 0) =>
      LET m == FirstTrue(roots) IN
        /\ {n \in Nodes : AnyHookRan(n)} \subseteq CommittedPath(roots[m])
        /\ outcome = "ok" => {n \in Nodes : AnyHookRan(n)} = CommittedPath(roots[m])
        /\ \A j \in 1..Len(roots) : j < m =>
             ~AnyHookRan(roots[j]) /\ \A d \in Descendants(roots[j]) : ~Touched(d)
        /\ \A j \in 1..Len(roots) : j > m =>
             ~Touched(roots[j]) /\ \A d \in Descendants(roots[j]) : ~Touched(d)

\* C2 witness: a finished best-first run whose first root was false, whose
\* second root ran together with a child, and which had a third root
C2_Witness ==
    /\ flavor = "best_first"
    /\ outcome = "ok"
    /\ Len(roots) >= 3
    /\ FirstTrue(roots) = 2
    /\ Cardinality(CommittedPath(roots[2])) >= 2
    /\ \A n \in CommittedPath(roots[2]) : HookRan(n, "exec")

\* C3 (chain linearity): in a chain run over one top rule, with k the first
\* node of the chain whose predicate is false (d + 1 when all are true), the
\* main hooks that have run are those of a prefix of nodes 1..k-1 in
\* parent-to-child order, no node k..d runs any hook, and when the run has
\* returned the main hooks of all of nodes 1..k-1 have run.
C3_ChainLinearity ==
    (flavor = "chain" /\ Len(roots) = 1) =>
      LET chain == ChainFrom(roots[1])
          d == Len(chain)
          k == IF \A i \in 1..d : eval_fn[chain[i]] THEN d + 1
               ELSE CHOOSE i \in 1..d : ~eval_fn[chain[i]] /\ \A j \in 1..(i - 1) : eval_fn[chain[j]]
      IN /\ Len(Executed) <= k - 1
         /\ Executed = SubSeq(chain, 1, Len(Executed))
         /\ \A j \in k..d : ~AnyHookRan(chain[j])
         /\ outcome = "ok" => Executed = SubSeq(chain, 1, k - 1)

\* C3 witness: a finished run of a chain of depth three or more whose first
\* two nodes ran and whose third node's predicate was false
C3_Witness ==
    /\ flavor = "chain"
    /\ outcome = "ok"
    /\ Len(roots) = 1
    /\ Len(ChainFrom(roots[1])) >= 3
    /\ Executed = SubSeq(ChainFrom(roots[1]), 1, 2)
    /\ Evaluated(ChainFrom(roots[1])[3])

\* C4 (a false predicate gates everything): in every flavor, a rule whose
\* predicate evaluated to false has run none of its hooks and none of its
\* children has been fired.
C4_FalsePredicateRunsNothing ==
    \A i \in DOMAIN trace :
      (trace[i].ev = "eval" /\ trace[i].res = "false") =>
        /\ ~AnyHookRan(trace[i].rule)
        /\ \A c \in Range(children[trace[i].rule]) : ~Touched(c)

\* C4 witness: a finished traversal in which a rule with children evaluated
\* to false after its parent had run
C4_Witness ==
    /\ Finished
    /\ \E i \in DOMAIN trace :
         /\ i > 1
         /\ trace[i].ev = "eval"
         /\ trace[i].res = "false"
         /\ children[trace[i].rule] # <<>>

\* C5 (what fire reports): whenever fire has returned a boolean for a rule,
\* it is true exactly when the rule's predicate evaluated to true.
C5_FireReportsPredicate ==
    \A r \in Nodes :
      fire_result[r] \in {"true", "false"} => (fire_result[r] = "true" <=> eval_fn[r])

\* C6 (hook order): in every flavor a pre-hook runs right after its rule's
\* predicate evaluated to true, a main hook right after the same rule's
\* pre-hook and a post-hook right after the same rule's main hook, each
\* reading the counter as the hook before it left it; and a rule whose fire
\* returned without error after a true predicate has run each hook once.
C6_HookOrder ==
    /\ \A i \in DOMAIN trace :
         LET e == trace[i] IN
           /\ e.ev = "pre" =>
                i > 1 /\ trace[i - 1].rule = e.rule /\ trace[i - 1].ev = "eval" /\ trace[i - 1].res = "true"
           /\ e.ev = "exec" =>
                /\ i > 1 /\ trace[i - 1].rule = e.rule /\ trace[i - 1].ev = "pre"
                /\ trace[i - 1].res = "ok" /\ e.saw = trace[i - 1].saw + 1
           /\ e.ev = "post" =>
                /\ i > 1 /\ trace[i - 1].rule = e.rule /\ trace[i - 1].ev = "exec"
                /\ trace[i - 1].res = "ok" /\ e.saw = trace[i - 1].saw + 1
    /\ \A r \in Nodes :
         (fire_result[r] \in {"true", "false"} /\ eval_fn[r]) =>
           \A h \in Hooks : TimesRan(r, h) = 1

\* C6 witness: a parent and its child have both run all three hooks
C6_Witness ==
    \E p \in Nodes :
      /\ children[p] # <<>>
      /\ \A h \in Hooks : HookRan(p, h) /\ HookRan(children[p][1], h)

\* C7 (arity enforcement): add_child on a chain-flavored rule that holds one
\* child returns TooManyChildren{max: 1, attempted: 2} and leaves the child
\* collection as it was.
C7_SecondChildIsAnError ==
    (build_kind = "chain" /\ build_last.op = "add_child" /\ Len(build_last.before) = 1) =>
      /\ build_last.res.kind = "TooManyChildren"
      /\ build_last.res = TooManyChildren(1, 2)
      /\ built = build_last.before

\* C8 (the chain runner rejects several roots): a chain run given two or more
\* top-level rules never returns normally, invokes no predicate and no hook,
\* attaches the context to no rule and leaves the context as given; once the
\* call is over it has failed.
C8_ChainRunnerRejectsSiblings ==
    (flavor = "chain" /\ Len(roots) >= 2) =>
      /\ trace = <<>>
      /\ context_map = set_int(EmptyMap, Counter, 0)
      /\ \A n \in Nodes : fire_result[n] = "unfired" /\ ~rule_context[n]
      /\ outcome # "ok"
      /\ Finished => outcome = "panic"

\* C8 witness: a chain run over two or more roots is over
C8_Witness ==
    /\ flavor = "chain"
    /\ Len(roots) >= 2
    /\ \E n \in Range(roots) : children[n] # <<>>
    /\ outcome = "panic"

\* C9 (round trip): get_V(k) right after set_V(k, v) returns Ok(v), whatever
\* the context held before.
C9_RoundTrip ==
    (last.op = "get" /\ prev.op = "set" /\ prev.key = last.key /\ prev.variant = last.variant) =>
      /\ last.res.ok
      /\ last.res.val = prev.arg

\* C9 witness: a NaN was stored with set_float and read back with get_float
C9_Witness ==
    /\ last.op = "get"
    /\ prev.op = "set"
    /\ prev.key = last.key
    /\ prev.variant = last.variant
    /\ last.variant = "Float"
    /\ last.res.ok
    /\ last.res.val = "NaN"

\* C10 (wrong-variant read): get_W(k) right after set_V(k, v) with W other
\* than V returns a TypeMismatch error, and k still holds v as variant V.
C10_WrongVariantRead ==
    (last.op = "get" /\ prev.op = "set" /\ prev.key = last.key /\ prev.variant # last.variant) =>
      /\ ~last.res.ok
      /\ last.res.err.kind = "TypeMismatch"
      /\ last.key \in DOMAIN context_map
      /\ context_map[last.key] = ContextValue(prev.variant, prev.arg)

\* C10 witness: a string was stored and read as bytes
C10_Witness ==
    /\ last.op = "get"
    /\ prev.op = "set"
    /\ prev.key = last.key
    /\ prev.variant = "String"
    /\ last.variant = "Bytes"
    /\ ~last.res.ok

\* C11 (missing-key read): get_V(k) on a context that holds no value under k,
\* a fresh context included, returns the error TypeMismatch{key: k, expected:
\* the name of V} for every variant V: no value comes back and the context is
\* still without k.
C11_MissingKeyRead ==
    (last.op = "get" /\ ~contains_key(context_map, last.key)) =>
      /\ ~last.res.ok
      /\ last.res.err = TypeMismatch(last.key, ExpectedName(last.variant))

\* C11 witness: the first operation on a fresh context is a get_bytes
C11_Witness ==
    /\ prev = NoOp
    /\ context_map = EmptyMap
    /\ last.op = "get"
    /\ last.variant = "Bytes"
    /\ ~last.res.ok

\* C12 (one value per key, set replaces): right after set_V(k, v) the context
\* holds exactly ContextValue V(v) under k, whatever variant k held before:
\* get_V(k) gives Ok(v) and get_W(k) is an error for every other variant W, the
\* variant of the set before it on the same key included.
C12_SetReplaces ==
    (last.op = "set") =>
      /\ contains_key(context_map, last.key)
      /\ context_map[last.key].tag = last.variant
      /\ context_map[last.key].val = last.arg
      /\ get_variant(context_map, last.key, last.variant).ok
      /\ get_variant(context_map, last.key, last.variant).val = last.arg
      /\ \A w \in Variants \ {last.variant} : ~get_variant(context_map, last.key, w).ok
      /\ (prev.op = "set" /\ prev.key = last.key /\ prev.variant # last.variant) =>
           ~get_variant(context_map, last.key, prev.variant).ok

\* C12 witness: a key set as Int is set again as String
C12_Witness ==
    /\ prev.op = "set"
    /\ last.op = "set"
    /\ prev.key = last.key
    /\ prev.variant = "Int"
    /\ last.variant = "String"
    /\ context_map[last.key] = ContextValue("String", last.arg)

\* how many hooks completed before the i-th invocation of the history
OkHooksBefore(i) == Cardinality({j \in 1..(i - 1) : trace[j].ev \in Hooks /\ trace[j].res = "ok"})

\* C13 (one shared context): every predicate and hook invoked in a traversal
\* reads, under the host's key, the host's value plus one for each hook that
\* completed before it, whichever rule that hook belonged to; and the context
\* the host holds carries all of these writes, at every moment and once the
\* run has returned.
C13_SharedContext ==
    /\ \A i \in 1..Len(trace) : trace[i].saw = OkHooksBefore(i)
    /\ Observed(context_map) = OkHooksBefore(Len(trace) + 1)

\* C13 witness: a best-first run over a parent and its child has returned; the
\* child's predicate read what the parent's three hooks wrote and the host
\* reads six writes
C13_Witness ==
    /\ flavor = "best_first"
    /\ outcome = "ok"
    /\ Observed(context_map) = 6
    /\ \E i \in 1..Len(trace) :
         /\ trace[i].ev = "eval"
         /\ trace[i].saw = 3
         /\ \E p \in Nodes : trace[i].rule \in Range(children[p]) /\ HookRan(p, "post")

\* a rule and, under it, the first child at each level
RECURSIVE FirstChildPath(_)
FirstChildPath(r) == IF children[r] = <<>> THEN {r} ELSE {r} \cup FirstChildPath(children[r][1])

\* the rules a traversal fires when every predicate is true
FiredWhenAllTrue ==
    CASE roots = <<>> -> {}
      [] roots # <<>> /\ flavor = "default" -> InForest
      [] roots # <<>> /\ flavor # "default" -> FirstChildPath(roots[1])

\* C14 (default callbacks): over a forest of rules on which no predicate and no
\* hook was set (for the chain runner: a single tree), a best-first run, a
\* chain run and the default fire never fail and never panic, can always go on
\* until they return, keep the context exactly as the host gave it at every
\* step, and, every predicate being true, have fired at return every rule the
\* policy leads to.
C14_DefaultCallbacks ==
    (callbacks = "default" /\ (flavor = "chain" => Len(roots) <= 1)) =>
      /\ context_map = set_int(EmptyMap, Counter, 0)
      /\ outcome \notin {"err", "panic"}
      /\ outcome \in {"idle", "running"} => ENABLED Next
      /\ outcome = "ok" => \A n \in Nodes : (fire_result[n] # "unfired") <=> (n \in FiredWhenAllTrue)
      /\ (outcome = "ok" /\ flavor = "default") => \A n \in InForest : fire_result[n] = "true"

\* C14 witness: a chain run over a rule with one child, both as constructed,
\* has returned
C14_Witness ==
    /\ callbacks = "default"
    /\ flavor = "chain"
    /\ Len(roots) = 1
    /\ children[roots[1]] # <<>>
    /\ outcome = "ok"
    /\ fire_result[children[roots[1]][1]] # "unfired"

\* the rules whose fire was active when rule r was fired: r and its ancestors
Ancestors(r) == {n \in InForest : r = n \/ r \in Descendants(n)}

HookIndex(hook) == CASE hook = "pre" -> 1 [] hook = "exec" -> 2 [] hook = "post" -> 3

\* C16 (execute aborts at the first failing hook): when a hook of a rule with
\* the default lifecycle fails, the hooks of that rule before it have each run
\* once, no hook of that rule after it has run (pre fails: neither main nor
\* post; main fails: not post), the rule's execute and fire returned the
\* error, and the context keeps every write of the hooks that completed: it
\* reads what the failing hook read, one higher than what the hook before it
\* read.
C16_ExecuteAbortsAtFirstFailure ==
    (flavor = "default" /\ fail_at.ev \in Hooks) =>
      \A i \in 1..Len(trace) :
        (trace[i].rule = fail_at.rule /\ trace[i].ev = fail_at.ev) =>
          /\ trace[i].res = "err"
          /\ \A g \in Hooks : HookIndex(g) < HookIndex(fail_at.ev) => TimesRan(fail_at.rule, g) = 1
          /\ \A g \in Hooks : HookIndex(g) > HookIndex(fail_at.ev) => ~HookRan(fail_at.rule, g)
          /\ fire_result[fail_at.rule] = "err"
          /\ Observed(context_map) = OkHooksBefore(i)
          /\ Observed(context_map) = trace[i].saw
          /\ fail_at.ev # "pre" => (trace[i - 1].res = "ok" /\ Observed(context_map) = trace[i - 1].saw + 1)

\* C16 witness: the main hook of a rule failed after its pre hook had written,
\* and the run is over
C16_Witness ==
    /\ flavor = "default"
    /\ fail_at.ev = "exec"
    /\ outcome = "err"
    /\ HookRan(fail_at.rule, "pre")
    /\ HookRan(fail_at.rule, "exec")
    /\ ~HookRan(fail_at.rule, "post")
    /\ Observed(context_map) >= 1

\* C17 (misuse of the chain runner is an error value): a chain run given two or
\* more top-level rules that is over has returned an error (ExecutionFailed)
\* to its caller; it has not aborted.
C17_ChainMisuseIsAnErrorValue ==
    (flavor = "chain" /\ Len(roots) >= 2 /\ Finished) => outcome = "err"

\* C18 as stated (exactly one root): a chain run that is over has succeeded
\* exactly when it was given one top-level rule; the empty list is rejected.
C18_ExactlyOneRoot ==
    (flavor = "chain" /\ Finished) => (outcome = "ok" <=> Len(roots) = 1)

\* C18 (at most one root): a chain run whose callbacks do not fail returns
\* normally exactly when it was given no rule or one rule, and fails, by the
\* runner's panic, exactly when it was given two or more; given no rule it
\* invokes nothing, attaches the context to nothing and leaves the context as
\* it was; given one rule it is never rejected.
C18_AtMostOneRoot ==
    (flavor = "chain" /\ fail_at = NoFail) =>
      /\ Finished => (outcome = "ok" <=> Len(roots) <= 1)
      /\ Finished => (outcome = "panic" <=> Len(roots) >= 2)
      /\ Len(roots) <= 1 => outcome \notin {"panic", "err"}
      /\ roots = <<>> =>
           /\ trace = <<>>
           /\ context_map = set_int(EmptyMap, Counter, 0)
           /\ \A n \in Nodes : ~rule_context[n] /\ fire_result[n] = "unfired"

\* C18 witness: a chain run over the empty list has returned normally
C18_Witness ==
    /\ flavor = "chain"
    /\ roots = <<>>
    /\ outcome = "ok"
    /\ trace = <<>>

\* where in the history callback ev of rule r was invoked (0: not invoked)
PosOf(r, ev) ==
    IF \E i \in DOMAIN trace : trace[i].rule = r /\ trace[i].ev = ev
      THEN CHOOSE i \in DOMAIN trace : trace[i].rule = r /\ trace[i].ev = ev
      ELSE 0

\* C19 (default lifecycle): under the default fire, when no callback fails, a
\* rule whose predicate was true has run pre, main and post before any of its
\* children is fired; its children are fired in insertion order, none twice,
\* none before the one declared before it; and when the rule's fire has
\* returned it reported true and every child has been fired exactly once and
\* reported its own predicate, a child that reported false included.
C19_DefaultLifecycle ==
    (flavor = "default" /\ fail_at = NoFail) =>
      \A p \in InForest :
        (Evaluated(p) /\ eval_fn[p]) =>
          LET cs == children[p] IN
            /\ \A k \in 1..Len(cs) :
                 /\ TimesRan(cs[k], "eval") <= 1
                 /\ Evaluated(cs[k]) => (HookRan(p, "post") /\ PosOf(p, "post") < PosOf(cs[k], "eval"))
                 /\ (Evaluated(cs[k]) /\ k > 1) =>
                      /\ fire_result[cs[k - 1]] = BoolStr(eval_fn[cs[k - 1]])
                      /\ PosOf(cs[k - 1], "eval") < PosOf(cs[k], "eval")
            /\ (fire_result[p] # "unfired" \/ Finished) =>
                 /\ fire_result[p] = "true"
                 /\ \A k \in 1..Len(cs) :
                      /\ TimesRan(cs[k], "eval") = 1
                      /\ fire_result[cs[k]] = BoolStr(eval_fn[cs[k]])

\* C19 witness: a rule with three children has returned; its first child's
\* predicate was false and the two after it were fired all the same
C19_Witness ==
    /\ flavor = "default"
    /\ fail_at = NoFail
    /\ outcome = "ok"
    /\ \E p \in InForest :
         /\ Len(children[p]) = 3
         /\ fire_result[p] = "true"
         /\ fire_result[children[p][1]] = "false"
         /\ fire_result[children[p][2]] = "true"
         /\ fire_result[children[p][3]] = "false"
         /\ PosOf(children[p][2], "eval") < PosOf(children[p][3], "eval")

\* the rule that holds n as a child (0: n is top-level)
ParentOf(n) ==
    IF \E p \in Nodes : n \in Range(children[p])
      THEN CHOOSE p \in Nodes : n \in Range(children[p])
      ELSE 0

\* the alternatives n competes with: the run's list, or its parent's children
SiblingsOf(n) == IF ParentOf(n) = 0 THEN roots ELSE children[ParentOf(n)]

RECURSIVE Depth(_)
Depth(n) == IF ParentOf(n) = 0 THEN 0 ELSE 1 + Depth(ParentOf(n))

\* the rules of which some hook ran
Realized == {n \in Nodes : AnyHookRan(n)}

\* C20 (single realized path): at every moment of a best-first run the rules
\* whose hooks have run form one path from a top-level rule downwards: they
\* are rules of the forest, no two of them are at the same depth, the parent
\* of each one that is not top-level is among them, and each has a true
\* predicate and is the first rule with a true predicate among its siblings
\* (the run's list for a top-level rule, the parent's children otherwise).
C20_SingleRealizedPath ==
    (flavor = "best_first") =>
      /\ Realized \subseteq InForest
      /\ \A a, b \in Realized : Depth(a) = Depth(b) => a = b
      /\ \A n \in Realized : ParentOf(n) # 0 => ParentOf(n) \in Realized
      /\ \A n \in Realized :
           /\ eval_fn[n]
           /\ FirstTrue(SiblingsOf(n)) # 0
           /\ n = SiblingsOf(n)[FirstTrue(SiblingsOf(n))]

\* C20 witness: a run has returned having realized a path of two rules, neither
\* of them the first declared among its siblings
C20_Witness ==
    /\ flavor = "best_first"
    /\ outcome = "ok"
    /\ Cardinality(Realized) = 2
    /\ \E n \in Realized : Depth(n) = 1 /\ n # SiblingsOf(n)[1]
    /\ \E n \in Realized : Depth(n) = 0 /\ n # roots[1]

\* C21 (chain arity invariant): whatever sequence of add_child, add_children
\* and get_children (with pushes onto what it returned) was applied to a
\* chain-flavored rule, the rule holds at most one child, the calls that
\* panicked included.
C21_ChainArity ==
    (build_kind = "chain") => Len(built) <= 1

\* C21 witness: a chain rule that holds a child was asked for its children and
\* the caller pushed another rule onto the answer
C21_Witness ==
    /\ build_kind = "chain"
    /\ build_last.op = "get_children"
    /\ Len(build_last.before) = 1
    /\ Len(built) = 1
    /\ build_last.args[1] \notin Range(built)

\* no hook of any rule has been invoked twice
HooksAtMostOnce == \A r \in Nodes : \A h \in Hooks : TimesRan(r, h) <= 1

\* C22 (termination): every traversal of a forest (a finite tree of rules by
\* construction) comes to an end, under the best-first runner, the chain
\* runner and the default fire alike, and at no moment has a hook of a rule
\* been invoked more than once.
C22_Termination == ([]HooksAtMostOnce) /\ (<>Finished)

\* C22 witness: a best-first run over a tree three rules deep has returned
\* after running the hooks of each of the three once
C22_Witness ==
    /\ flavor = "best_first"
    /\ outcome = "ok"
    /\ Cardinality({r \in Nodes : \A h \in Hooks : TimesRan(r, h) = 1}) = 3
    /\ \E r \in Nodes : AnyHookRan(r) /\ children[r] # <<>> /\ AnyHookRan(children[r][1]) /\ r \notin Range(roots)

\* C23 (no context attached): a best-first or chain rule fired without a
\* context, once the call is over, has returned the error value ContextNotSet
\* to its caller, and none of its hooks has run.
C23_ContextNotSetIsAnErrorValue ==
    (flavor \in {"best_first", "chain"} /\ Finished /\ \A n \in Nodes : ~rule_context[n]) =>
      /\ outcome = "err"
      /\ stack = <<>>
      /\ trace = <<>>

\* C24 (fields of TypeMismatch): every get_V(k) that fails returns
\* TypeMismatch{key: k, expected: the name of V}, whether k is absent or holds
\* a value of another variant.
C24_TypeMismatchNamesTheKey ==
    (last.op = "get" /\ ~last.res.ok) =>
      /\ last.res.err.kind = "TypeMismatch"
      /\ last.res.err.expected = ExpectedName(last.variant)
      /\ last.res.err.key = last.key

\* s is an initial part of t
IsPrefix(s, t) == Len(s) <= Len(t) /\ \A i \in 1..Len(s) : s[i] = t[i]

\* C25 (a traversal leaves the tree alone): at every moment of a run and of the
\* run after it, every rule has the children, in the order, and the predicate
\* and hooks it was built with, and the list of roots is the one given; the
\* second run, started over the same roots on an equal context, invokes the
\* predicates and hooks the first one invoked, in the same order and with the
\* same results, and ends as the first one ended.
C25_TraversalLeavesTreeAlone ==
    /\ children = first_run.children
    /\ eval_fn = first_run.eval_fn
    /\ fail_at = first_run.fail_at
    /\ callbacks = first_run.callbacks
    /\ roots = first_run.roots
    /\ first_run.done =>
         /\ IsPrefix(trace, first_run.trace)
         /\ outcome \in {"idle", "running", first_run.outcome}
         /\ Finished => trace = first_run.trace

\* C25 witness: the second best-first run over a parent and its child has
\* returned, after as many invocations as the first
C25_Witness ==
    /\ first_run.done
    /\ flavor = "best_first"
    /\ outcome = "ok"
    /\ Len(trace) >= 8
    /\ trace = first_run.trace
    /\ \E n \in Nodes : rule_context[n] /\ children[n] # <<>> /\ AnyHookRan(children[n][1])

C27_PredicateAtMostOnce ==
    (flavor \in {"best_first", "chain"}) =>
      \A r \in Nodes :
        /\ TimesRan(r, "eval") <= 1
        /\ AnyHookRan(r) =>
             /\ TimesRan(r, "eval") = 1
             /\ trace[PosOf(r, "eval")].res = "true"
             /\ PosOf(r, "pre") = PosOf(r, "eval") + 1

\* C27 witness: a best-first run committed to its second top-level rule and to
\* that rule's child, each evaluated once
C27_Witness ==
    /\ flavor = "best_first"
    /\ outcome = "ok"
    /\ Len(roots) >= 2
    /\ TimesRan(roots[1], "eval") = 1
    /\ AnyHookRan(roots[2])
    /\ TimesRan(roots[2], "eval") = 1
    /\ children[roots[2]] # <<>>
    /\ AnyHookRan(children[roots[2]][1])

\* C28 (add_children is all-or-nothing): an add_children call on a
\* chain-flavored rule whose child count plus the number of rules supplied
\* exceeds one fails (it panics) and leaves the child collection exactly as it
\* was, without any of the supplied rules; a call within the limit succeeds
\* and appends all of them in order.
C28_AddChildrenAllOrNothing ==
    (build_kind = "chain" /\ build_last.op = "add_children") =>
      IF Len(build_last.before) + Len(build_last.args) > 1
        THEN /\ build_last.res.kind = "Panic"
             /\ built = build_last.before
             /\ Range(build_last.args) \cap Range(built) = {}
        ELSE /\ build_last.res = BuildOk
             /\ built = build_last.before \o build_last.args

\* C28 witness: a chain rule without children was given two rules at once
C28_Witness ==
    /\ build_kind = "chain"
    /\ build_last.op = "add_children"
    /\ build_last.before = <<>>
    /\ Len(build_last.args) = 2
    /\ build_last.res.kind = "Panic"
    /\ built = <<>>

\* the rules whose fire is active
Firing == {stack[i].rule : i \in {j \in 1..Len(stack) : stack[j].kind = "fire"}}

\* C29 (context attached before any callback): in a run started through the
\* best-first or the chain runner, every rule whose fire is active and every
\* rule whose predicate or hook has been invoked has the run's context
\* attached, at every depth; so no callback and no run_children ever fails to
\* fetch it: the only panic of such a run is the chain runner's refusal of
\* several roots, before anything was invoked.
C29_ContextAttachedBeforeCallbacks ==
    (flavor \in {"best_first", "chain"}) =>
      /\ \A r \in Firing : rule_context[r]
      /\ \A i \in 1..Len(trace) : rule_context[trace[i].rule]
      /\ outcome = "panic" => (flavor = "chain" /\ Len(roots) >= 2 /\ trace = <<>>)

\* C29 witness: the predicate of a rule three levels down a chain was invoked
\* with the context attached
C29_Witness ==
    /\ flavor = "chain"
    /\ Len(roots) = 1
    /\ \E r \in Nodes :
         /\ r \notin Range(roots)
         /\ ParentOf(r) \notin Range(roots)
         /\ ParentOf(r) # 0
         /\ Evaluated(r)
         /\ rule_context[r]

-----------------------------------------------------------------------------
(* C30: remove(k) returns the value k held, or none when k was absent;      *)
(* after it contains_key(k) is false, every typed read of k fails and every *)
(* other key keeps its value. clear() leaves contains_key false for every   *)
(* key. At all times contains_key(k) is true exactly when some typed read   *)
(* of k succeeds.                                                           *)

SameEntry(before, after, key) ==
    /\ (key \in DOMAIN before) <=> (key \in DOMAIN after)
    /\ (key \in DOMAIN before) =>
         /\ after[key].tag = before[key].tag
         /\ after[key].val = before[key].val

RemoveStep ==
    (last'.op = "remove") =>
      LET k == last'.key IN
        /\ last'.res.ok
        /\ IF contains_key(context_map, k)
             THEN /\ Len(last'.res.val) = 1
                  /\ last'.res.val[1].tag = context_map[k].tag
                  /\ last'.res.val[1].val = context_map[k].val
             ELSE last'.res.val = <<>>
        /\ ~contains_key(context_map', k)
        /\ \A variant \in Variants : ~get_variant(context_map', k, variant).ok
        /\ \A other \in Keys \ {k} : SameEntry(context_map, context_map', other)

ClearStep ==
    (last'.op = "clear") =>
      \A k \in Keys :
        /\ ~contains_key(context_map', k)
        /\ \A variant \in Variants : ~get_variant(context_map', k, variant).ok

ContainsIffReadable ==
    \A k \in Keys :
      contains_key(context_map, k) <=> \E variant \in Variants : get_variant(context_map, k, variant).ok

C30_RemoveAndClear == ([]ContainsIffReadable) /\ [][RemoveStep /\ ClearStep]_vars

\* a held key was removed and handed back while the other key is still there
C30_Witness ==
    /\ last.op = "remove"
    /\ Len(last.res.val) = 1
    /\ ~contains_key(context_map, last.key)
    /\ \E other \in Keys \ {last.key} : contains_key(context_map, other)

-----------------------------------------------------------------------------
(* C31: when the best-first runner is given top-level rules none of whose   *)
(* predicates is true (the empty list included), the predicates of the      *)
(* roots are evaluated once each, in order, no hook of any rule runs, no    *)
(* descendant is visited, and the run returns normally having evaluated     *)
(* every root.                                                              *)

C31_NoTrueRoot ==
    (flavor = "best_first" /\ FirstTrue(roots) = 0) =>
      /\ Len(trace) <= Len(roots)
      /\ \A i \in 1..Len(trace) :
           /\ trace[i].rule = roots[i]
           /\ trace[i].ev = "eval"
           /\ trace[i].res = "false"
      /\ outcome \in {"idle", "running", "ok"}
      /\ outcome = "ok" => Len(trace) = Len(roots)

\* a finished run over two false roots, the first of which has a child
C31_Witness ==
    /\ flavor = "best_first"
    /\ Len(roots) >= 2
    /\ FirstTrue(roots) = 0
    /\ children[roots[1]] # <<>>
    /\ outcome = "ok"
    /\ Len(trace) = Len(roots)

====
